---- MODULE Spec2Model ----
(***************************************************************************)
(* Model of the mermAId diagram-generation control loop:                   *)
(*   - chatRequestHandler / runWithFunctions  (src/src/chat/chatParticipant.ts) *)
(*   - DiagramEditorPanel.createOrShow / _validate / dispose               *)
(*                                            (src/src/diagramEditorPanel.ts) *)
(*   - the Diagram constructor (normalisation) (src/src/extension.ts:36-52) *)
(*                                                                         *)
(* Strings are sequences of one-character strings, so that the regular     *)
(* expressions and the substring tests of the code are computed character  *)
(* by character.                                                           *)
(***************************************************************************)
EXTENDS Integers, Sequences, FiniteSets, TLC

(***************************************************************************)
(* Bounds of the model.                                                    *)
(***************************************************************************)
\* chunks (text, delta or tool call) the model provider emits in one behaviour;
\* a request after the first is paid from the same budget
MaxChunks == 2
\* chat requests handled one after the other in one behaviour
MaxTurns == 1
\* times the user closes the panel in one behaviour
MaxDisposals == 1
\* pieces concatenated to build an input of the normalisation
MaxPieces == 3
\* createOrShow calls of overlapping turns in one behaviour
MaxCalls == 2
\* milliseconds the clock advances while overlapping turns validate
MaxClock == 2

(***************************************************************************)
(* String helpers (JavaScript String.prototype semantics).                 *)
(***************************************************************************)
\* the characters String.prototype.trim removes that occur in the model
IsSpace(c) == c \in {" ", "\n"}

\* s.startsWith(p)
StartsWith(s, p) == Len(s) >= Len(p) /\ SubSeq(s, 1, Len(p)) = p

\* s.endsWith(p)
EndsWith(s, p) == Len(s) >= Len(p) /\ SubSeq(s, Len(s) - Len(p) + 1, Len(s)) = p

\* s.includes(sub) / s.indexOf(sub) >= 0
Includes(s, sub) ==
    \E i \in 0..(Len(s) - Len(sub)) : SubSeq(s, i + 1, i + Len(sub)) = sub

RECURSIVE TrimStart(_)
TrimStart(s) ==
    IF s # <<>> /\ IsSpace(Head(s)) THEN TrimStart(Tail(s)) ELSE s

RECURSIVE TrimEnd(_)
TrimEnd(s) ==
    IF s # <<>> /\ IsSpace(s[Len(s)]) THEN TrimEnd(SubSeq(s, 1, Len(s) - 1)) ELSE s

\* s.trim()
Trim(s) == TrimEnd(TrimStart(s))

RECURSIVE Concat(_)
\* the concatenation of a sequence of strings
Concat(ss) == IF ss = <<>> THEN <<>> ELSE Head(ss) \o Concat(Tail(ss))

(***************************************************************************)
(* Literals of the code.                                                   *)
(***************************************************************************)
\* the backtick character (a TLA+ string literal cannot contain it)
BQ == "bq"
\* a plausible slip: one backtick starts the capture
FenceOpen_Single == <<BQ>>

\* '``'  (chatParticipant.ts:109)
FenceOpen == <<BQ, BQ>>
\* '```' (diagramEditorPanel.ts:155, extension.ts:42)
Fence == <<BQ, BQ, BQ>>
\* 'mermaid' (chatParticipant.ts:179)
Mermaid == <<"m", "e", "r", "m", "a", "i", "d">>
\* '```mermaid' (extension.ts:41)
FenceMermaid == Fence \o Mermaid

(***************************************************************************)
(* Diagram constructor: the normalised content.                            *)
(*   this._content.replace(/^```mermaid/, '').replace(/```$/, '').trim()   *)
(***************************************************************************)
\* .replace(/^```mermaid/, '')
StripLeading(s) ==
    IF StartsWith(s, FenceMermaid) THEN SubSeq(s, Len(FenceMermaid) + 1, Len(s)) ELSE s

\* .replace(/```$/, '')
StripTrailing(s) ==
    IF EndsWith(s, Fence) THEN SubSeq(s, 1, Len(s) - Len(Fence)) ELSE s

\* a plausible slip: the content is not trimmed
Diagram_NoTrim(raw) == StripTrailing(StripLeading(raw))

\* new Diagram(raw).content
Diagram(raw) == Trim(StripTrailing(StripLeading(raw)))


(***************************************************************************)
(* Inputs the environment can provide.                                     *)
(***************************************************************************)
\* request.command: 'iterate' selects the alternate provider (groqEnabled)
Commands == {"iterate", "uml"}

\* text of a chunk that is plain prose: "a`" (one backtick is no fence marker)
Prose == <<"a", BQ>>
\* "```mermaid\nA\n```": a complete fenced diagram with the language tag
Fenced == FenceMermaid \o <<"\n", "A", "\n">> \o Fence
\* "``B": two backticks open the capture, the content holds no ``` sequence
TwoTicks == FenceOpen \o <<"B">>

\* values of the text parts the model provider emits
TextValues == {Prose, Fenced, TwoTicks}

\* call identifiers of LanguageModelToolCallPart
CallIds == {"call1"}

\* error texts the renderer posts (JSON.stringify(err) of mermaid.parseError)
Errors == {"unexpected token"}

\* a plausible slip: the rejection carries no error text
ExtraFenceError_Empty == ""

\* error text of the malformed-extraction rejection (diagramEditorPanel.ts:156):
\* 'diagram contains extra ``` characters'
ExtraFenceError == "diagram contains extra fence characters"

\* a part of response.stream: a LanguageModelTextPart, a
\* LanguageModelToolCallPart, or a chunk of the alternate provider ('choices'
\* in part) whose choices[0].delta.content is value (<<>>: no content)
Part(type, value, callId) == [type |-> type, value |-> value, callId |-> callId]

\* the parts the provider selected by the command can yield
Parts(cmd) ==
    IF cmd = "iterate"
    THEN {Part("choices", v, "") : v \in TextValues \cup {<<>>}}
    ELSE {Part("text", v, "") : v \in TextValues}
         \cup {Part("toolCall", <<>>, c) : c \in CallIds}

\* pieces an input of the normalisation is built from
Pieces == {FenceMermaid, Fence, <<BQ>>, <<" ">>, <<"A">>}

RECURSIVE PieceSeqs(_)
\* the strings made of at most n pieces
PieceSeqs(n) ==
    IF n = 0 THEN {<<>>}
    ELSE LET shorter == PieceSeqs(n - 1)
         IN shorter \cup {p \o s : p \in Pieces, s \in shorter}

NormInputs == PieceSeqs(MaxPieces)

(***************************************************************************)
(* State.                                                                  *)
(***************************************************************************)
VARIABLES
    \* ---- chatRequestHandler (one turn) ----
    pc,                 \* position of the handler
    turn,               \* number of requests handled so far
    command,            \* request.command
    retries,            \* chatParticipant.ts:65
    messages,           \* chatParticipant.ts:48, pushed to at 180-188
    toolCallRounds,     \* chatParticipant.ts:67
    accumulatedToolResults, \* chatParticipant.ts:66 (the call ids that have a result)
    isMermaidDiagramStreamingIn, \* chatParticipant.ts:79
    mermaidDiagram,     \* chatParticipant.ts:80
    responseStr,        \* chatParticipant.ts:92
    totalResponse,      \* chatParticipant.ts:93
    toolCalls,          \* chatParticipant.ts:90
    result,             \* chatParticipant.ts:162 (the result of createOrShow)
    stream,             \* the ChatResponseStream of the request: what the user sees
    errorLog,           \* the output channel entries written at chatParticipant.ts:192
    cancelled,          \* token.isCancellationRequested of the request
    \* ---- DiagramEditorPanel ----
    currentPanel,       \* DiagramEditorPanel.currentPanel is defined
    diagram,            \* this._diagram.content of the panel object
    parseDetails,       \* this.parseDetails of the panel object
    html,               \* this._panel.webview.html
    posted,             \* the page in html has posted its parse-result
    disposed,           \* the panel object a pending _validate runs on was disposed
    nonce,              \* the nonce of the pending _validate
    now,                \* the clock read by new Date().getTime()
    \* ---- history ----
    modelInvocations,   \* requests sent to the model in this turn
    validations,        \* createOrShow calls of this turn
    failures,           \* createOrShow results with success = false in this turn
    chunks,             \* values of the text parts of the current response, in order
    mark,               \* Len(stream) when the current response started
    hadDiagram,         \* a current diagram existed when the turn started
    chunkCount,         \* parts emitted (and requests after the first) so far
    disposals,          \* times the panel was closed so far
    pushed,             \* the messages pushed at chatParticipant.ts:180-188 in this turn
    toolCallResults,    \* the map given to the last renderPrompt of this turn
    invoked,            \* call ids handed to the tool invoker by the renders of this turn
    thrown,             \* the model request or its response stream failed in this turn
    \* ---- promptLLMForOutlineDiagram (outlineView.ts:60-171) ----
    outline,            \* its position, messages, retries, mermaidDiagram and result
    \* ---- createOrShow calls of overlapping turns ----
    pendingCalls,       \* per call: its candidate, its nonce and what it resolved with
    \* ---- normalisation on its own ----
    normIn,             \* a raw string
    normOut             \* the contents of successive new Diagram(...) of it

turnVars == <<turn, command, retries, messages, toolCallRounds, accumulatedToolResults,
              hadDiagram, cancelled>>
localVars == <<isMermaidDiagramStreamingIn, mermaidDiagram, responseStr, totalResponse, toolCalls, result>>
panelVars == <<currentPanel, diagram, parseDetails, html, posted, disposed, nonce, now>>
histVars == <<modelInvocations, validations, failures, chunks, mark, chunkCount, disposals,
              pushed, toolCallResults, invoked, thrown>>
normVars == <<normIn, normOut>>
vars == <<pc, turnVars, localVars, stream, errorLog, panelVars, histVars, normVars, outline,
          pendingCalls>>

\* positions at which chatRequestHandler has returned, or ("threw") has
\* rejected with the error of the model request or of its response stream
Terminal == {"accepted", "abandoned", "noDiagram", "threw"}

\* a message of the sequence sent to the model
\* (role "user": LanguageModelChatMessage.User(text); "rendered": the prompt)
Msg(kind, error, diag, rounds) ==
    [kind |-> kind, role |-> IF kind = "prompt" THEN "rendered" ELSE "user",
     error |-> error, diagram |-> diag, rounds |-> rounds]

\* the messages renderPrompt(MermaidPrompt, {toolCallRounds, ...}) returns:
\* opaque prompt content, rebuilt from the rounds alone
RenderPrompt(rounds) == <<Msg("prompt", "", <<>>, Len(rounds))>>

\* an entry of the response stream: markdown(text) | markdown(fixed note) |
\* progress(note) | button(text)
Ev(kind, text, note) == [kind |-> kind, text |-> text, note |-> note]

\* webview.html: nothing loaded, the validation page or the diagram view
NoHtml == [kind |-> "none", content |-> <<>>, nonce |-> 0]
getHtmlToValidateMermaid(d, n) == [kind |-> "validate", content |-> d, nonce |-> n]
getHtmlForWebview(d) == [kind |-> "view", content |-> d, nonce |-> 0]

\* what _validate resolves with; NoResult: createOrShow has not returned
NoResult == [known |-> FALSE, success |-> FALSE, error |-> ""]
Success == [known |-> TRUE, success |-> TRUE, error |-> ""]
Failure(error) == [known |-> TRUE, success |-> FALSE, error |-> error]


\* promptLLMForOutlineDiagram has not been called.  invocations, validations:
\* the requests sent and the candidates validated so far; validated: the
\* outcome of the last validation; unread: the parts of the last response the
\* loop left unread; given: the view's diagram was assigned the returned one
OutlineIdle ==
    [pc |-> "idle", messages |-> <<>>, retries |-> 0, mermaidDiagram |-> <<>>,
     result |-> <<>>, toolFailed |-> FALSE, invocations |-> 0, validations |-> 0,
     validated |-> FALSE, unread |-> <<>>, given |-> FALSE]

(***************************************************************************)
(* Initial state: the extension is activated and no request is being       *)
(* handled.  Either no panel exists, or the panel shows the diagram an     *)
(* earlier request got accepted (the state PollSuccess leaves behind for   *)
(* the content of Fenced).                                                 *)
(***************************************************************************)
NoPanel ==
    /\ currentPanel = FALSE
    /\ diagram = <<>>
    /\ parseDetails = <<>>
    /\ html = NoHtml
    /\ posted = FALSE
    /\ disposed = FALSE
    /\ nonce = 0
    /\ now = 0

ShownPanel ==
    /\ currentPanel = TRUE
    /\ diagram = Diagram(Fenced)
    /\ parseDetails = <<[nonce |-> 0, success |-> TRUE, error |-> "",
                         diagram |-> Diagram(Fenced)]>>
    /\ html = getHtmlForWebview(Diagram(Fenced))
    /\ posted = TRUE
    /\ disposed = FALSE
    /\ nonce = 0
    /\ now = 1

InitChat ==
    /\ pc = "idle"
    /\ turn = 0
    /\ command = "uml"
    /\ retries = 0
    /\ messages = <<>>
    /\ toolCallRounds = <<>>
    /\ accumulatedToolResults = {}
    /\ isMermaidDiagramStreamingIn = FALSE
    /\ mermaidDiagram = <<>>
    /\ responseStr = <<>>
    /\ totalResponse = <<>>
    /\ toolCalls = <<>>
    /\ result = NoResult
    /\ stream = <<>>
    /\ errorLog = <<>>
    /\ cancelled = FALSE
    /\ (NoPanel \/ ShownPanel)
    /\ modelInvocations = 0
    /\ validations = 0
    /\ failures = 0
    /\ chunks = <<>>
    /\ mark = 0
    /\ hadDiagram = FALSE
    /\ chunkCount = 0
    /\ disposals = 0
    /\ pushed = <<>>
    /\ toolCallResults = {}
    /\ invoked = <<>>
    /\ thrown = FALSE
    /\ outline = OutlineIdle
    /\ pendingCalls = <<>>

Init == InitChat /\ normIn = <<>> /\ normOut = <<>>

(***************************************************************************)
(* runWithFunctions, from its entry to the request sent to the model       *)
(* (chatParticipant.ts:68-93).  cp: currentPanel is defined, strm: the     *)
(* response stream so far, inv: the requests sent so far, fails: the       *)
(* request is rejected (model.sendRequest rejects, callWithGroq throws).   *)
(* Nothing catches the error: runWithFunctions and chatRequestHandler      *)
(* reject with it (line 201).                                              *)
(***************************************************************************)
\* a plausible slip: the check for a diagram to iterate on is missing
NoDiagramToIterate_Never(cmd, cp) == FALSE

\* lines 71-73
NoDiagramToIterate(cmd, cp) == cmd = "iterate" /\ ~cp

\* a plausible slip: the error is caught and the loop goes on reading
OnStreamError_Swallowed == "streaming"

\* position of the handler after an error of the request or of its stream
OnStreamError == "threw"

runWithFunctions(cmd, cp, strm, inv, fails) ==
    /\ isMermaidDiagramStreamingIn' = FALSE
    /\ mermaidDiagram' = <<>>
    /\ responseStr' = <<>>
    /\ totalResponse' = <<>>
    /\ toolCalls' = <<>>
    /\ result' = NoResult
    /\ chunks' = <<>>
    /\ IF NoDiagramToIterate(cmd, cp)
       THEN \* no diagram to iterate on: explain and return
            /\ pc' = "noDiagram"
            /\ stream' = Append(strm, Ev("markdown", <<>>, "No diagram found"))
            /\ modelInvocations' = inv
            /\ mark' = Len(strm) + 1
            /\ thrown' = FALSE
       ELSE IF fails
       THEN \* the request is rejected before anything is written or read
            /\ pc' = OnStreamError
            /\ stream' = strm
            /\ modelInvocations' = inv + 1
            /\ mark' = Len(strm)
            /\ thrown' = TRUE
       ELSE \* callWithGroq announces itself on the stream (line 289)
            /\ stream' = IF cmd = "iterate"
                         THEN Append(strm, Ev("markdown", <<>>, "using GROQ"))
                         ELSE strm
            /\ pc' = "streaming"
            /\ modelInvocations' = inv + 1
            /\ mark' = Len(stream')
            /\ thrown' = FALSE

(***************************************************************************)
(* chatRequestHandler is invoked for a request (chatParticipant.ts:21-67,  *)
(* 201): renders the initial prompt, resets the turn's state and calls     *)
(* runWithFunctions.                                                       *)
(***************************************************************************)
chatRequestHandler(cmd, fails) ==
    /\ pc \in Terminal \cup {"idle"}
    /\ outline.pc = "idle"
    /\ turn < MaxTurns
    /\ (turn = 0 \/ chunkCount < MaxChunks)
    /\ chunkCount' = IF turn = 0 THEN chunkCount ELSE chunkCount + 1
    /\ turn' = turn + 1
    /\ command' = cmd
    /\ messages' = RenderPrompt(<<>>)
    /\ retries' = 0
    /\ accumulatedToolResults' = {}
    /\ toolCallRounds' = <<>>
    /\ hadDiagram' = currentPanel
    /\ validations' = 0
    /\ failures' = 0
    /\ pushed' = <<>>
    /\ toolCallResults' = {}
    /\ invoked' = <<>>
    /\ cancelled' = FALSE
    /\ runWithFunctions(cmd, currentPanel, <<>>, 0, fails)
    /\ UNCHANGED <<errorLog, panelVars, disposals, normVars, outline,
                   pendingCalls>>

(***************************************************************************)
(* The for-await loop body for one part of response.stream                 *)
(* (chatParticipant.ts:94-128).                                            *)
(***************************************************************************)
\* a plausible slip: the chunk of the alternate provider is not converted
Adapt_Identity(part) == part

\* lines 95-107: a chunk of the alternate provider with content becomes a text part
Adapt(part) ==
    IF part.type = "choices" /\ part.value # <<>>
    THEN Part("text", part.value, "")
    ELSE part

\* a plausible slip: the capture follows the current chunk only
Capturing_PerChunk(isIn, value) == Includes(value, FenceOpen)

\* isMermaidDiagramStreamingIn after lines 109-114 for a text part
Capturing(isIn, value) == isIn \/ Includes(value, FenceOpen)

\* a plausible slip: only the last tool call of a response is kept
PushToolCall_Last(calls, part) == <<part.callId>>

\* line 125: toolCalls.push(part)
PushToolCall(calls, part) == Append(calls, part.callId)

StreamPart(p) ==
    /\ pc = "streaming"
    /\ chunkCount < MaxChunks
    /\ chunkCount' = chunkCount + 1
    /\ LET part == Adapt(p)
           opens == ~isMermaidDiagramStreamingIn /\ Includes(part.value, FenceOpen)
           strm1 == IF opens
                    THEN Append(stream, Ev("progress", <<>>, "Capturing mermaid diagram"))
                    ELSE stream
       IN CASE part.type = "text" ->
                 /\ isMermaidDiagramStreamingIn' = Capturing(isMermaidDiagramStreamingIn, part.value)
                 /\ totalResponse' = IF opens THEN totalResponse \o part.value ELSE totalResponse
                 /\ IF isMermaidDiagramStreamingIn'
                    THEN /\ mermaidDiagram' = mermaidDiagram \o part.value
                         /\ stream' = strm1
                         /\ responseStr' = responseStr
                    ELSE /\ stream' = Append(strm1, Ev("markdown", part.value, ""))
                         /\ responseStr' = responseStr \o part.value
                         /\ mermaidDiagram' = mermaidDiagram
                 /\ toolCalls' = toolCalls
                 /\ result' = result
                 /\ chunks' = Append(chunks, part.value)
            [] part.type = "toolCall" ->
                 /\ toolCalls' = PushToolCall(toolCalls, part)
                 /\ UNCHANGED <<isMermaidDiagramStreamingIn, mermaidDiagram, responseStr,
                                totalResponse, result, stream, chunks>>
            [] OTHER ->
                 \* neither a text part nor a tool call part: skipped
                 UNCHANGED <<localVars, stream, chunks>>
    /\ UNCHANGED <<pc, turnVars, errorLog, panelVars, modelInvocations, validations,
                   failures, mark, disposals, pushed, toolCallResults, invoked, thrown,
                   normVars, outline,
                   pendingCalls>>

(***************************************************************************)
(* The parse-error branch of runWithFunctions (chatParticipant.ts:174-198),*)
(* entered with the error of the failed validation; cp: currentPanel is    *)
(* defined when the branch runs, strm: the response stream so far.         *)
(***************************************************************************)
\* a plausible slip: one more retry
MayRetry_Le(r) == r <= 4

\* a plausible slip: only two retries
MayRetry_Three(r) == r < 3

\* a plausible slip: the ceiling is five
MayRetry_Five(r) == r < 5

\* line 185
MayRetry(r) == r < 4

\* a plausible slip: a corrective instruction is pushed on every failure
WithCorrective_Always(r, msgs, diag) ==
    IF ~Includes(diag, Mermaid)
    THEN Append(msgs, Msg("keyword", "", <<>>, 0))
    ELSE Append(msgs, Msg("nesting", "", <<>>, 0))

\* lines 177-184: the corrective instruction pushed on the first failure
WithCorrective(r, msgs, diag) ==
    IF r = 1
    THEN IF ~Includes(diag, Mermaid)
         THEN Append(msgs, Msg("keyword", "", <<>>, 0))
         ELSE Append(msgs, Msg("nesting", "", <<>>, 0))
    ELSE msgs

\* a plausible slip: the messages are reset to the fix message (see the comment at line 187)
WithFix_Reset(msgs, error, diag) == <<Msg("fix", error, diag, 0)>>

\* a plausible slip: the fix message does not quote the error
WithFix_NoError(msgs, error, diag) == Append(msgs, Msg("fix", "", diag, 0))

\* line 188: the fix message quotes the error and the captured text
WithFix(msgs, error, diag) == Append(msgs, Msg("fix", error, diag, 0))

\* a plausible slip: the failing diagram is not shown
Surface_NoDiagram(strm, diag) ==
    strm \o << Ev("markdown", <<>>, "Failed to display your requested mermaid diagram"),
               Ev("markdown", <<>>, "running with function go") >>

\* lines 194-198: what the user is shown when the retries are exhausted
Surface(strm, diag) ==
    strm \o << Ev("markdown", <<>>, "Failed to display your requested mermaid diagram"),
               Ev("markdown", diag, ""),
               Ev("markdown", <<>>, "running with function go") >>

\* a plausible slip: the counter is incremented twice on a failure
Incremented_Twice(r) == r + 2

\* line 176: ++retries
Incremented(r) == r + 1

HandleParseError(error, cp, strm, fails) ==
    LET r == Incremented(retries)
        msgs1 == WithCorrective(r, messages, mermaidDiagram)
    IN /\ retries' = r
       /\ failures' = failures + 1
       /\ IF MayRetry(r)
          THEN /\ messages' = WithFix(msgs1, error, mermaidDiagram)
               /\ errorLog' = errorLog
               /\ runWithFunctions(command, cp,
                      Append(strm, Ev("progress", <<>>, "Attempting to fix validation errors")),
                      modelInvocations, fails)
          ELSE /\ messages' = msgs1
               /\ errorLog' = IF error # "" THEN Append(errorLog, error) ELSE errorLog
               /\ stream' = Surface(strm, mermaidDiagram)
               /\ pc' = "abandoned"
               /\ isMermaidDiagramStreamingIn' = FALSE
               /\ result' = Failure(error)
               /\ UNCHANGED <<mermaidDiagram, responseStr, totalResponse, toolCalls,
                              modelInvocations, mark, chunks, thrown>>
       /\ pushed' = pushed \o SubSeq(messages', Len(messages) + 1, Len(messages'))
       /\ UNCHANGED <<toolCallResults, invoked>>


(***************************************************************************)
(* End of response.stream (chatParticipant.ts:130-172): with tool calls    *)
(* the round is recorded and the prompt re-rendered; otherwise the         *)
(* captured text is validated through DiagramEditorPanel.createOrShow      *)
(* (diagramEditorPanel.ts:38-63) and _validate (150-163).                  *)
(***************************************************************************)
\* a plausible slip: the fence check is skipped
IsMalformed_Never(content) == FALSE

\* diagramEditorPanel.ts:155
IsMalformed(content) == Includes(content, Fence)

\* a plausible slip: a response with tool calls is validated like any other
HasToolCalls_Never(calls) == FALSE

\* chatParticipant.ts:130: if (toolCalls.length)
HasToolCalls(calls) == calls # <<>>

\* a plausible slip: the round is recorded without the prose of the response
ToolCallRound_NoProse(response, calls) == [response |-> <<>>, toolCalls |-> calls]

\* a plausible slip: the round is recorded with the other response buffer
ToolCallRound_Total(response, calls) == [response |-> totalResponse, toolCalls |-> calls]

\* chatParticipant.ts:131-134: the record pushed to toolCallRounds
ToolCallRound(response, calls) == [response |-> response, toolCalls |-> calls]

\* a plausible slip: a panel is created for every candidate
ReusesPanel_Never(cp) == FALSE

\* diagramEditorPanel.ts:44: if (DiagramEditorPanel.currentPanel)
ReusesPanel(cp) == cp

\* a plausible slip: every validation uses the same token
NewNonce_Fixed(t) == 0

\* diagramEditorPanel.ts:162: new Date().getTime().toString(), t the clock
NewNonce(t) == t

EndStream(fails) ==
    /\ pc = "streaming"
    /\ IF HasToolCalls(toolCalls)
       THEN /\ toolCallRounds' = Append(toolCallRounds, ToolCallRound(responseStr, toolCalls))
            /\ pc' = "renderPrompt"
            /\ ~fails
            /\ UNCHANGED <<turn, command, retries, messages, accumulatedToolResults,
                           hadDiagram, cancelled, localVars, stream, errorLog, panelVars,
                           histVars>>
       ELSE LET d == Diagram(mermaidDiagram)
                strm1 == Append(stream, Ev("progress", <<>>, "Validating mermaid diagram"))
            IN /\ validations' = validations + 1
               \* createOrShow: reuse the panel and replace its diagram, or create one
               /\ currentPanel' = TRUE
               /\ diagram' = d
               /\ parseDetails' = IF ReusesPanel(currentPanel) THEN parseDetails ELSE <<>>
               /\ disposed' = FALSE
               /\ now' = now
               /\ IF IsMalformed(d)
                  THEN \* rejected before anything is rendered
                       /\ html' = IF ReusesPanel(currentPanel) THEN html ELSE NoHtml
                       /\ posted' = IF ReusesPanel(currentPanel) THEN posted ELSE FALSE
                       /\ nonce' = nonce
                       /\ HandleParseError(ExtraFenceError, TRUE, strm1, fails)
                  ELSE \* load the validation page and wait for its parse-result
                       /\ ~fails
                       /\ nonce' = NewNonce(now)
                       /\ html' = getHtmlToValidateMermaid(d, nonce')
                       /\ posted' = FALSE
                       /\ pc' = "validating"
                       /\ stream' = strm1
                       /\ isMermaidDiagramStreamingIn' = FALSE
                       /\ UNCHANGED <<retries, failures, messages, errorLog, mermaidDiagram,
                                      responseStr, totalResponse, toolCalls, result,
                                      modelInvocations, mark, chunks, pushed,
                                      toolCallResults, invoked, thrown>>
               /\ UNCHANGED <<turn, command, toolCallRounds, accumulatedToolResults,
                              hadDiagram, cancelled, chunkCount, disposals>>
    /\ UNCHANGED <<normVars, outline,
                   pendingCalls>>

(***************************************************************************)
(* renderPrompt has returned after a tool-call round                       *)
(* (chatParticipant.ts:135-152): the messages are replaced by the          *)
(* re-rendered prompt, the results of the rounds' calls are accumulated    *)
(* and runWithFunctions is re-entered.                                     *)
(***************************************************************************)
\* the call ids of the tool calls of all rounds, in order
RoundCalls(rounds) == Concat([i \in 1..Len(rounds) |-> rounds[i].toolCalls])

\* a plausible slip: the re-render is given the empty map of the first render (line 54)
ToolResultsGiven_Empty(acc) == {}

\* line 141: toolCallResults: accumulatedToolResults
ToolResultsGiven(acc) == acc

\* the calls the rendering of the rounds hands to the tool invoker: those whose
\* call id has no result in the map it was given
ToolInvocations(rounds, given) ==
    LET NotGiven(c) == c \notin given
    IN SelectSeq(RoundCalls(rounds), NotGiven)

\* lines 147-150: the ToolResultMetadata of the render, one per rendered tool call
ToolResultMetadata(rounds) == {RoundCalls(rounds)[i] : i \in 1..Len(RoundCalls(rounds))}

\* a plausible slip: the tool-call rounds of a turn are capped
ToolsRendered_Capped(fails) ==
    /\ pc = "renderPrompt"
    /\ Len(toolCallRounds) < 2
    /\ toolCallResults' = ToolResultsGiven(accumulatedToolResults)
    /\ invoked' = invoked \o ToolInvocations(toolCallRounds, toolCallResults')
    /\ messages' = RenderPrompt(toolCallRounds)
    /\ accumulatedToolResults' = accumulatedToolResults \cup ToolResultMetadata(toolCallRounds)
    /\ runWithFunctions(command, currentPanel, stream, modelInvocations, fails)
    /\ UNCHANGED <<turn, command, retries, toolCallRounds, hadDiagram, cancelled, errorLog,
                   panelVars, validations, failures, chunkCount, disposals, pushed,
                   normVars, outline,
                   pendingCalls>>

ToolsRendered(fails) ==
    /\ pc = "renderPrompt"
    /\ toolCallResults' = ToolResultsGiven(accumulatedToolResults)
    /\ invoked' = invoked \o ToolInvocations(toolCallRounds, toolCallResults')
    /\ messages' = RenderPrompt(toolCallRounds)
    /\ accumulatedToolResults' = accumulatedToolResults \cup ToolResultMetadata(toolCallRounds)
    /\ runWithFunctions(command, currentPanel, stream, modelInvocations, fails)
    /\ UNCHANGED <<turn, command, retries, toolCallRounds, hadDiagram, cancelled, errorLog,
                   panelVars, validations, failures, chunkCount, disposals, pushed,
                   normVars, outline,
                   pendingCalls>>


(***************************************************************************)
(* The validation page loaded in the webview posts its parse-result        *)
(* (diagramEditorPanel.ts:235-254); the panel records it (88-91).  The     *)
(* field diagram of a record is the diagram text of the page that posted   *)
(* it (lines 231-233; the message carries it at line 241 on a failure).    *)
(***************************************************************************)
ParseResult(success, error) ==
    /\ html.kind = "validate"
    /\ ~posted
    /\ ~disposed
    /\ currentPanel
    /\ parseDetails' = Append(parseDetails,
           [nonce |-> html.nonce, success |-> success,
            error |-> IF success THEN "" ELSE error, diagram |-> html.content])
    /\ posted' = TRUE
    /\ UNCHANGED <<pc, turnVars, localVars, stream, errorLog, currentPanel, diagram,
                   html, disposed, nonce, now, histVars, normVars, outline,
                   pendingCalls>>

(***************************************************************************)
(* The interval callback of _validate finds a parse-result with the nonce  *)
(* it waits for (diagramEditorPanel.ts:167-178) and runWithFunctions       *)
(* continues with the result (chatParticipant.ts:164-198).  A callback    *)
(* that finds none changes nothing.  The timer fires after the validation  *)
(* started, so the clock has advanced.                                     *)
(***************************************************************************)
\* a plausible slip: the first recorded parse-result is taken, whatever its nonce
Find_Any(details, n) == IF details # <<>> THEN 1 ELSE 0

\* this.parseDetails.find((p) => p.nonce === n): index of the first match, 0 if none
Find(details, n) ==
    IF \E i \in 1..Len(details) : details[i].nonce = n
    THEN CHOOSE i \in 1..Len(details) :
            /\ details[i].nonce = n
            /\ \A j \in 1..(i - 1) : details[j].nonce # n
    ELSE 0

\* the panel object is unreachable once its last _validate has resolved after a dispose
PanelAfterResolve(h) ==
    IF disposed
    THEN /\ diagram' = <<>>
         /\ parseDetails' = <<>>
         /\ html' = NoHtml
         /\ posted' = FALSE
         /\ disposed' = FALSE
    ELSE /\ html' = h
         /\ UNCHANGED <<diagram, parseDetails, posted, disposed>>

\* a plausible slip: the button is given the captured text as it was streamed
OpenSourceArgument_Raw(raw) == raw

\* chatParticipant.ts:160, 167: arguments: [diagram.content] of new Diagram(mermaidDiagram)
OpenSourceArgument(raw) == Diagram(raw)

PollSuccess ==
    /\ pc = "validating"
    /\ Find(parseDetails, nonce) # 0
    /\ parseDetails[Find(parseDetails, nonce)].success
    /\ now' = now + 1
    /\ PanelAfterResolve(getHtmlForWebview(diagram))
    /\ stream' = Append(stream, Ev("button", OpenSourceArgument(mermaidDiagram),
                                   "Open mermaid source"))
    /\ pc' = "accepted"
    /\ result' = Success
    /\ UNCHANGED <<turnVars, isMermaidDiagramStreamingIn, mermaidDiagram, responseStr,
                   totalResponse, toolCalls, errorLog, currentPanel, nonce, histVars,
                   normVars, outline,
                   pendingCalls>>

\* the webview of a disposed panel rejects the assignment of html: the
\* callback throws after clearInterval, before resolve, and the wait never ends
PollThrows ==
    /\ pc = "validating"
    /\ disposed
    /\ Find(parseDetails, nonce) # 0
    /\ parseDetails[Find(parseDetails, nonce)].success
    /\ now' = now + 1
    /\ pc' = "hung"
    /\ UNCHANGED <<turnVars, localVars, stream, errorLog, currentPanel, diagram,
                   parseDetails, html, posted, disposed, nonce, histVars, normVars, outline,
                   pendingCalls>>

PollFailure(fails) ==
    /\ pc = "validating"
    /\ Find(parseDetails, nonce) # 0
    /\ ~parseDetails[Find(parseDetails, nonce)].success
    /\ now' = now + 1
    /\ PanelAfterResolve(html)
    /\ HandleParseError(parseDetails[Find(parseDetails, nonce)].error, currentPanel, stream,
                        fails)
    /\ UNCHANGED <<turn, command, toolCallRounds, accumulatedToolResults, hadDiagram, cancelled,
                   currentPanel, nonce, validations, chunkCount, disposals, normVars, outline,
                   pendingCalls>>

(***************************************************************************)
(* The user closes the panel: DiagramEditorPanel.dispose                   *)
(* (diagramEditorPanel.ts:131-145).  A pending _validate keeps polling the *)
(* disposed object.                                                        *)
(***************************************************************************)
dispose ==
    /\ currentPanel
    /\ disposals < MaxDisposals
    /\ disposals' = disposals + 1
    /\ currentPanel' = FALSE
    /\ IF pc = "validating"
       THEN /\ disposed' = TRUE
            /\ UNCHANGED <<diagram, parseDetails, html, posted>>
       ELSE /\ disposed' = FALSE
            /\ diagram' = <<>>
            /\ parseDetails' = <<>>
            /\ html' = NoHtml
            /\ posted' = FALSE
    /\ UNCHANGED <<pc, turnVars, localVars, stream, errorLog, nonce, now,
                   modelInvocations, validations, failures, chunks, mark, chunkCount,
                   pushed, toolCallResults, invoked, thrown, normVars, outline,
                   pendingCalls>>

(***************************************************************************)
(* The iteration of response.stream fails (the for-await loop at           *)
(* chatParticipant.ts:94 throws): nothing catches the error, the handler   *)
(* rejects with it.                                                        *)
(***************************************************************************)
StreamThrows ==
    /\ pc = "streaming"
    /\ pc' = OnStreamError
    /\ thrown' = TRUE
    /\ UNCHANGED <<turnVars, localVars, stream, errorLog, panelVars, modelInvocations,
                   validations, failures, chunks, mark, chunkCount, disposals, pushed,
                   toolCallResults, invoked, normVars, outline,
                   pendingCalls>>

(***************************************************************************)
(* The user cancels the request while the handler runs: the token of the   *)
(* request (chatParticipant.ts:21) reports isCancellationRequested.  The   *)
(* handler hands the token to model.sendRequest (line 86) and reads it     *)
(* nowhere; callWithGroq is not given it (line 84).                        *)
(***************************************************************************)
Cancel ==
    /\ pc \in {"streaming", "renderPrompt", "validating"}
    /\ ~cancelled
    /\ cancelled' = TRUE
    /\ UNCHANGED <<pc, turn, command, retries, messages, toolCallRounds,
                   accumulatedToolResults, hadDiagram, localVars, stream, errorLog,
                   panelVars, histVars, normVars, outline,
                   pendingCalls>>

(***************************************************************************)
(* The outline view: promptLLMForOutlineDiagram (outlineView.ts:60-171).   *)
(* It shares no state with the chat handler; a behaviour follows one of    *)
(* the two.                                                                *)
(***************************************************************************)
\* vscode.lm.tools: the ids of the registered tools
Tools == {"tool1"}
\* part.name of a tool call part: a registered tool or not
ToolNames == Tools \cup {"nope"}
\* part.parameters of a tool call part: JSON text or not
ToolParameters == {"json", "not json"}

\* a message of the outline loop; kind: "instructions" (line 91), "file" (92),
\* "toolCalls" (an assistant message whose content2 holds the tool call parts,
\* 134-136), "toolResult" (a user message whose content2 holds the tool result
\* part, 139-141), "note" (145), "fix" (162)
OMsg(role, kind, callId, error, diag) ==
    [role |-> role, kind |-> kind, callId |-> callId, error |-> error, diagram |-> diag]

\* a tool call part of the outline loop's response
OPart(callId, name, parameters) ==
    [type |-> "toolCall", value |-> <<>>, callId |-> callId, name |-> name,
     parameters |-> parameters]

OutlineParts ==
    {Part("text", v, "") : v \in TextValues}
    \cup {OPart(c, n, a) : c \in CallIds, n \in ToolNames, a \in ToolParameters}

\* what a response holds after the part being read: nothing, or one more tool call
\* (the call ids of one response are distinct)
OutlineRests == {<<>>} \cup {<<OPart("call2", n, "json")>> : n \in Tools}

\* runWithTools from its entry to the request (lines 97-101)
runWithTools(o, msgs, fails) ==
    [o EXCEPT !.pc = IF fails THEN "threw" ELSE "streaming",
              !.messages = msgs,
              !.mermaidDiagram = <<>>,
              !.invocations = @ + 1]

\* lines 60-101, 170: the early returns, the first messages, the first request
promptLLMForOutlineDiagram(ready, fails) ==
    /\ pc = "idle"
    /\ outline.pc = "idle"
    /\ outline' =
          IF ~ready
          THEN [outline EXCEPT !.pc = "returned"]
          ELSE runWithTools(outline,
                   << OMsg("assistant", "instructions", "", "", <<>>),
                      OMsg("user", "file", "", "", <<>>) >>,
                   fails)
    /\ UNCHANGED <<pc, turnVars, localVars, stream, errorLog, panelVars, histVars, normVars,
                   pendingCalls>>

\* a plausible slip: the closing user message is not pushed
WithToolsNote_Missing(msgs) == msgs

\* line 145: the prompt must end with a user message with no tool call
WithToolsNote(msgs) == Append(msgs, OMsg("user", "note", "", "", <<>>))

\* lines 134-142: the tool calls and their results are added to the context
WithToolRound(msgs, callId) ==
    msgs \o << OMsg("assistant", "toolCalls", callId, "", <<>>),
               OMsg("user", "toolResult", callId, "", <<>>) >>

\* lines 103-150: one part of response.stream; toolFails: the invocation of
\* the tool rejects; rest: the parts of the response that follow p.  The block
\* of lines 133-150 is inside the loop: with a tool call collected it returns
\* the re-entered runWithTools (line 149) and the loop reads no further part.
OutlinePart(p, toolFails, fails, rest) ==
    /\ outline.pc = "streaming"
    /\ chunkCount < MaxChunks
    /\ chunkCount' = chunkCount + 1
    /\ outline' =
          IF p.type = "text"
          THEN [outline EXCEPT !.mermaidDiagram = @ \o p.value]
          ELSE IF p.name \notin Tools \/ p.parameters # "json" \/ toolFails
          THEN \* lines 110, 116: throw; line 140: the awaited result rejects
               [outline EXCEPT !.pc = "threw", !.toolFailed = TRUE]
          ELSE [runWithTools(outline,
                    WithToolsNote(WithToolRound(outline.messages, p.callId)), fails)
                 EXCEPT !.unread = rest]
    /\ UNCHANGED <<pc, turnVars, localVars, stream, errorLog, panelVars, modelInvocations,
                   validations, failures, chunks, mark, disposals, pushed, toolCallResults,
                   invoked, thrown, normVars, pendingCalls>>

\* a plausible slip: one more retry
OutlineMayRetry_Le(r) == r <= 2

\* line 160: retries++ < 2, r the value before the increment
OutlineMayRetry(r) == r < 2

\* lines 152-167: the stream has ended; the candidate is validated
\* (success or not, with a message) and retried or returned (line 167: return
\* nextDiagram).  _generateOutlineDiagram assigns a returned Diagram to the
\* view's diagram (lines 185-188).
OutlineEndStream(success, error, fails) ==
    /\ outline.pc = "streaming"
    /\ outline' =
          IF success
          THEN [outline EXCEPT !.pc = "returned",
                               !.result = Diagram(outline.mermaidDiagram),
                               !.validations = @ + 1,
                               !.validated = TRUE,
                               !.given = TRUE]
          ELSE IF OutlineMayRetry(outline.retries)
          THEN [runWithTools(outline,
                    Append(outline.messages,
                           OMsg("user", "fix", "", error, outline.mermaidDiagram)),
                    fails)
                 EXCEPT !.retries = outline.retries + 1,
                        !.validations = @ + 1,
                        !.validated = FALSE]
          ELSE [outline EXCEPT !.pc = "returned",
                               !.retries = outline.retries + 1,
                               !.result = Diagram(outline.mermaidDiagram),
                               !.validations = @ + 1,
                               !.validated = FALSE,
                               !.given = TRUE]
    /\ UNCHANGED <<pc, turnVars, localVars, stream, errorLog, panelVars, histVars, normVars,
                   pendingCalls>>

\* the iteration of response.stream fails (line 103)
OutlineStreamThrows ==
    /\ outline.pc = "streaming"
    /\ outline' = [outline EXCEPT !.pc = "threw"]
    /\ UNCHANGED <<pc, turnVars, localVars, stream, errorLog, panelVars, histVars, normVars,
                   pendingCalls>>

NextOutline ==
    \/ \E ready, fails \in BOOLEAN : promptLLMForOutlineDiagram(ready, fails)
    \/ \E p \in OutlineParts, toolFails, fails \in BOOLEAN, rest \in OutlineRests :
          OutlinePart(p, toolFails, fails, rest)
    \/ \E success, fails \in BOOLEAN, error \in Errors : OutlineEndStream(success, error, fails)
    \/ OutlineStreamThrows

(***************************************************************************)
(* Specification of the chat loop.                                         *)
(***************************************************************************)
Next ==
    \/ \E cmd \in Commands, fails \in BOOLEAN : chatRequestHandler(cmd, fails)
    \/ \E p \in Parts(command) : StreamPart(p)
    \/ \E fails \in BOOLEAN : EndStream(fails)
    \/ \E fails \in BOOLEAN : ToolsRendered(fails)
    \/ \E success \in BOOLEAN, error \in Errors : ParseResult(success, error)
    \/ PollSuccess
    \/ PollThrows
    \/ \E fails \in BOOLEAN : PollFailure(fails)
    \/ StreamThrows
    \/ dispose
    \/ NextOutline

Spec == Init /\ [][Next]_vars

(***************************************************************************)
(* Specification of the chat loop with a user who may cancel the request.  *)
(* No action reads cancelled, so a behaviour of SpecCancel without its     *)
(* Cancel steps is a behaviour of Spec.                                    *)
(***************************************************************************)
NextCancel == Next \/ Cancel

SpecCancel == Init /\ [][NextCancel]_vars

(***************************************************************************)
(* Specification of the chat loop with its scheduling: the handler's own   *)
(* steps are taken when they can be, the interval timer of _validate keeps *)
(* firing (diagramEditorPanel.ts:167-178) and a loaded validation page     *)
(* posts its result.  The provider and the user owe nothing.               *)
(***************************************************************************)
Fairness ==
    /\ WF_vars(\E fails \in BOOLEAN : EndStream(fails))
    /\ WF_vars(\E fails \in BOOLEAN : ToolsRendered(fails))
    /\ WF_vars(\E success \in BOOLEAN, error \in Errors : ParseResult(success, error))
    /\ WF_vars(PollSuccess \/ PollThrows \/ (\E fails \in BOOLEAN : PollFailure(fails)))

SpecFair == Init /\ [][Next]_vars /\ Fairness

(***************************************************************************)
(* Two turns that overlap: DiagramEditorPanel.createOrShow is called for   *)
(* a candidate while the _validate of an earlier call on the same panel is *)
(* still polling (chatParticipant.ts:162 of two requests handled at the    *)
(* same time; nothing serialises them).  Each call keeps its own nonce in  *)
(* the closure of its promise; the diagram, the page and the recorded      *)
(* parse-results belong to the one panel.  The panel stays open.           *)
(***************************************************************************)
\* the contents of the candidates the turns hand to createOrShow
Candidates == {Diagram(<<>>), Diagram(Fenced), Diagram(TwoTicks), Diagram(Fenced \o Fenced)}

\* diagramEditorPanel.ts:38-63 and 150-166: the call up to its first await
createOrShow(d) ==
    /\ Len(pendingCalls) < MaxCalls
    /\ currentPanel' = TRUE
    /\ diagram' = d
    /\ parseDetails' = IF ReusesPanel(currentPanel) THEN parseDetails ELSE <<>>
    /\ IF IsMalformed(d)
       THEN /\ html' = IF ReusesPanel(currentPanel) THEN html ELSE NoHtml
            /\ posted' = IF ReusesPanel(currentPanel) THEN posted ELSE FALSE
            /\ pendingCalls' = Append(pendingCalls, [diagram |-> d, nonce |-> NewNonce(now),
                                       polling |-> FALSE,
                                       result |-> Failure(ExtraFenceError)])
       ELSE /\ html' = getHtmlToValidateMermaid(d, NewNonce(now))
            /\ posted' = FALSE
            /\ pendingCalls' = Append(pendingCalls, [diagram |-> d, nonce |-> NewNonce(now),
                                       polling |-> TRUE, result |-> NoResult])
    /\ UNCHANGED <<pc, turnVars, localVars, stream, errorLog, disposed, nonce, now,
                   histVars, normVars, outline>>

\* diagramEditorPanel.ts:167-178: the interval callback of call i finds a
\* parse-result with the nonce of the call; it runs 100 ms after the call at
\* the earliest
IntervalCallback(i) ==
    /\ i \in 1..Len(pendingCalls)
    /\ pendingCalls[i].polling
    /\ now > pendingCalls[i].nonce
    /\ Find(parseDetails, pendingCalls[i].nonce) # 0
    /\ LET pd == parseDetails[Find(parseDetails, pendingCalls[i].nonce)]
       IN IF pd.success
          THEN /\ html' = getHtmlForWebview(diagram)
               /\ pendingCalls' = [pendingCalls EXCEPT ![i].polling = FALSE, ![i].result = Success]
          ELSE /\ html' = html
               /\ pendingCalls' = [pendingCalls EXCEPT ![i].polling = FALSE,
                                          ![i].result = Failure(pd.error)]
    /\ UNCHANGED <<pc, turnVars, localVars, stream, errorLog, currentPanel, diagram,
                   parseDetails, posted, disposed, nonce, now, histVars, normVars, outline>>

\* the clock read at diagramEditorPanel.ts:162 advances by a millisecond
Tick ==
    /\ now < MaxClock
    /\ now' = now + 1
    /\ UNCHANGED <<pc, turnVars, localVars, stream, errorLog, currentPanel, diagram,
                   parseDetails, html, posted, disposed, nonce, histVars, normVars,
                   outline, pendingCalls>>

NextOverlap ==
    \/ \E d \in Candidates : createOrShow(d)
    \/ \E success \in BOOLEAN, error \in Errors : ParseResult(success, error)
    \/ \E i \in 1..MaxCalls : IntervalCallback(i)
    \/ Tick

SpecOverlap == Init /\ [][NextOverlap]_vars

(***************************************************************************)
(* Specification of the normalisation alone: a raw string from NormInputs  *)
(* is wrapped in a Diagram, and the content of that Diagram in another.    *)
(***************************************************************************)
InitNormalize == InitChat /\ normIn \in NormInputs /\ normOut = <<>>

NewDiagram ==
    /\ Len(normOut) < 2
    /\ normOut' = Append(normOut,
           Diagram(IF normOut = <<>> THEN normIn ELSE normOut[Len(normOut)]))
    /\ UNCHANGED <<pc, turnVars, localVars, stream, errorLog, panelVars, histVars, normIn,
                   outline, pendingCalls>>

NextNormalize == NewDiagram

SpecNormalize == InitNormalize /\ [][NextNormalize]_vars

TypeOK ==
    /\ pc \in {"idle", "streaming", "renderPrompt", "validating", "hung"} \cup Terminal
    /\ cancelled \in BOOLEAN
    /\ retries \in 0..4
    /\ currentPanel \in BOOLEAN


(***************************************************************************)
(* Observations used by the properties.                                    *)
(***************************************************************************)
\* the chunk holds a fence-open marker: two or more consecutive backticks
HasMarker(c) == \E i \in 1..(Len(c) - 1) : c[i] = BQ /\ c[i + 1] = BQ

\* index of the first chunk holding a fence-open marker, 0 if there is none
FirstFence(cs) ==
    IF \E i \in 1..Len(cs) : HasMarker(cs[i])
    THEN CHOOSE i \in 1..Len(cs) :
            /\ HasMarker(cs[i])
            /\ \A j \in 1..(i - 1) : ~HasMarker(cs[j])
    ELSE 0

\* the content holds the fence sequence: three consecutive backticks
HasFence(c) == \E i \in 1..(Len(c) - 2) : c[i] = BQ /\ c[i + 1] = BQ /\ c[i + 2] = BQ

IsChunkMarkdown(e) == e.kind = "markdown" /\ e.note = ""

\* the texts sent to the prose sink since the current response started
ProseSink ==
    LET evs == SelectSeq(SubSeq(stream, mark + 1, Len(stream)), IsChunkMarkdown)
    IN [i \in 1..Len(evs) |-> evs[i].text]

\* the response of the current round is being read or has been read
InRound == pc \in {"streaming", "renderPrompt", "validating", "hung"}

\* the number of fix messages in a message sequence
IsFix(m) == m.kind = "fix"
FixCount(msgs) == Len(SelectSeq(msgs, IsFix))

\* error texts a validation can fail with
AllErrors == Errors \cup {ExtraFenceError}

\* the stream entries that carry text e
Carries(e) == {i \in 1..Len(stream) : stream[i].note = e}

(***************************************************************************)
(* Properties.                                                             *)
(***************************************************************************)

\* C1: the retry counter never exceeds the ceiling 4, and a turn is abandoned
\* exactly when 4 validations of the turn have failed.
C1_RetryCeiling ==
    /\ retries <= 4
    /\ retries = failures
    /\ (pc = "abandoned" <=> failures = 4)

C1_Witness == pc = "abandoned" /\ retries = 4 /\ failures = 4 /\ validations = 4

\* C2 as stated: without tool calls the turn is abandoned only on the 5th
\* consecutive failure, after 5 model invocations.
C2_AbandonedOnFifth ==
    (pc = "abandoned" /\ toolCallRounds = <<>>) => (failures = 5 /\ modelInvocations = 5)

\* C2 amended: without tool calls, every continuing round after failure 1..3 has
\* re-invoked the model (one invocation more than failures), and the turn is
\* abandoned on the 4th consecutive failure, after the 3rd retry, showing the
\* diagram text of the 4th invocation.
C2_AbandonedOnFourth ==
    toolCallRounds = <<>> =>
        /\ (InRound => failures <= 3 /\ modelInvocations = failures + 1)
        /\ (pc = "abandoned" =>
               /\ failures = 4
               /\ modelInvocations = 4
               /\ FixCount(messages) = 3
               /\ Len(stream) >= 2
               /\ stream[Len(stream) - 1] = Ev("markdown", mermaidDiagram, ""))

C2_Witness ==
    /\ pc = "abandoned"
    /\ toolCallRounds = <<>>
    /\ modelInvocations = 4
    /\ mermaidDiagram # <<>>

\* C3: an 'iterate' request issued while no current diagram exists ends at once
\* with the explanatory message: no model invocation, no validation, no round.
C3_IterateWithoutDiagram ==
    (pc # "idle" /\ command = "iterate" /\ ~hadDiagram) =>
        /\ pc = "noDiagram"
        /\ modelInvocations = 0
        /\ validations = 0
        /\ toolCallRounds = <<>>
        /\ stream = <<Ev("markdown", <<>>, "No diagram found")>>

C3_Witness == pc = "noDiagram" /\ command = "iterate" /\ ~hadDiagram /\ modelInvocations = 0

\* C4: if chunk k is the first text chunk of a response with a fence-open
\* marker, the diagram buffer is the concatenation of the chunks k.., the prose
\* sink got exactly the chunks before k, and the capture stays on while the
\* response is read.
C4_CaptureFromFence ==
    LET k == FirstFence(chunks)
    IN (InRound /\ k # 0) =>
          /\ mermaidDiagram = Concat(SubSeq(chunks, k, Len(chunks)))
          /\ ProseSink = SubSeq(chunks, 1, k - 1)
          /\ (pc = "streaming" => isMermaidDiagramStreamingIn)

C4_Witness ==
    /\ pc = "streaming"
    /\ FirstFence(chunks) # 0
    /\ FirstFence(chunks) < Len(chunks)
    /\ ~HasMarker(chunks[Len(chunks)])

\* C5: a response without any fence-open marker leaves the diagram buffer empty
\* and has every text chunk forwarded, in order, to the prose sink.
C5_NoFenceAllProse ==
    (InRound /\ FirstFence(chunks) = 0) =>
        /\ mermaidDiagram = <<>>
        /\ ProseSink = chunks
        /\ ~isMermaidDiagramStreamingIn

C5_Witness ==
    /\ pc = "validating"
    /\ Len(chunks) >= 2
    /\ FirstFence(chunks) = 0
    /\ mermaidDiagram = <<>>

\* C6: a diagram whose content contains ``` fails validation at once: no nonce
\* is generated, no page is loaded into the webview, no wait starts; and the
\* validation page never holds such a content.
C6_FenceRejected ==
    /\ [](html.kind = "validate" => ~HasFence(html.content))
    /\ [][ (validations' = validations + 1 /\ HasFence(diagram')) =>
              /\ failures' = failures + 1
              /\ nonce' = nonce
              /\ html' \in {html, NoHtml}
              /\ pc' # "validating" ]_vars

C6_Witness ==
    /\ currentPanel
    /\ HasFence(diagram)
    /\ failures >= 1
    /\ html = NoHtml
    /\ parseDetails = <<>>

\* C7: normalisation is idempotent: the content of a Diagram built from the
\* content of a Diagram is that content.
C7_Idempotent == Len(normOut) = 2 => normOut[2] = normOut[1]

\* C8: a first response of prose chunks followed by one chunk that is exactly
\* ```mermaid + body + ```, once accepted, ends the turn after one model
\* invocation with the trimmed body as the diagram and the earlier chunks as prose.
C8_FencedBlockAccepted ==
    LET n == Len(chunks)
        last == chunks[n]
        body == SubSeq(last, Len(FenceMermaid) + 1, Len(last) - Len(Fence))
    IN (/\ pc = "accepted"
        /\ validations = 1
        /\ toolCallRounds = <<>>
        /\ n >= 1
        /\ FirstFence(chunks) = n
        /\ Len(last) >= Len(FenceMermaid) + Len(Fence)
        /\ StartsWith(last, FenceMermaid)
        /\ EndsWith(last, Fence)) =>
            /\ modelInvocations = 1
            /\ failures = 0
            /\ stream[Len(stream)] = Ev("button", Trim(body), "Open mermaid source")
            /\ ProseSink = SubSeq(chunks, 1, n - 1)
            /\ (currentPanel => diagram = Trim(body) /\ html = getHtmlForWebview(Trim(body)))

C8_Witness ==
    /\ pc = "accepted"
    /\ validations = 1
    /\ modelInvocations = 1
    /\ chunks = <<Prose, Fenced>>
    /\ currentPanel
    /\ diagram = <<"A">>

\* C9: when the first validation of a turn fails and the second succeeds, with
\* no tool calls, the model was invoked twice and exactly one fix message was
\* appended in between (after the one corrective instruction of a first failure).
C9_OneRetryMessage ==
    (pc = "accepted" /\ failures = 1 /\ toolCallRounds = <<>>) =>
        /\ modelInvocations = 2
        /\ validations = 2
        /\ FixCount(messages) = 1
        /\ Len(messages) = 3
        /\ messages[1].kind = "prompt"
        /\ messages[2].kind \in {"keyword", "nesting"}
        /\ messages[3].kind = "fix"
        /\ messages[3].error \in AllErrors

C9_Witness ==
    /\ pc = "accepted"
    /\ failures = 1
    /\ toolCallRounds = <<>>
    /\ FixCount(messages) = 1
    /\ messages[3].error = "unexpected token"

\* C10 as stated: on abandonment the response stream holds the last validator
\* error text and the last failing diagram text.
C10_ErrorAndDiagramShown ==
    pc = "abandoned" =>
        /\ Carries(result.error) # {}
        /\ \E i \in 1..Len(stream) : stream[i] = Ev("markdown", mermaidDiagram, "")

\* C10 amended: on abandonment the handler has returned, the response stream
\* ends with the failure notice, the last failing diagram text verbatim and the
\* closing note; the last validator error text is in no stream entry but is the
\* last entry of the output log.
C10_DiagramShownErrorLogged ==
    pc = "abandoned" =>
        /\ pc \in Terminal
        /\ result.known /\ ~result.success /\ result.error \in AllErrors
        /\ Len(stream) >= 3
        /\ SubSeq(stream, Len(stream) - 2, Len(stream)) =
              << Ev("markdown", <<>>, "Failed to display your requested mermaid diagram"),
                 Ev("markdown", mermaidDiagram, ""),
                 Ev("markdown", <<>>, "running with function go") >>
        /\ \A e \in AllErrors : Carries(e) = {}
        /\ errorLog # <<>>
        /\ errorLog[Len(errorLog)] = result.error

C10_Witness ==
    /\ pc = "abandoned"
    /\ result.error = "unexpected token"
    /\ mermaidDiagram # <<>>
    /\ errorLog # <<>>

\* C11: every corrective instruction and fix message pushed after a validation
\* failure of the turn is in the message sequence of every later model
\* invocation of the turn, also when a tool-call round re-rendered the messages.
C11_MessagesRetained ==
    pc = "streaming" =>
        \A i \in 1..Len(pushed) : \E j \in 1..Len(messages) : messages[j] = pushed[i]

\* the number of times call id c was handed to the tool invoker
Invocations(inv, c) == Cardinality({i \in 1..Len(inv) : inv[i] = c})

\* C12: within a turn the accumulated tool-result map only grows, every prompt
\* re-render is given a map holding every entry recorded so far, and a call id
\* that has an entry is not handed to the tool invoker again.
C12_ToolResultsKept ==
    [][ turn' = turn =>
          /\ accumulatedToolResults \subseteq accumulatedToolResults'
          /\ (pc = "renderPrompt" /\ pc' # "renderPrompt" =>
                 accumulatedToolResults \subseteq toolCallResults')
          /\ \A c \in accumulatedToolResults :
                 Invocations(invoked', c) = Invocations(invoked, c) ]_vars

C12_Witness ==
    /\ Len(toolCallRounds) = 2
    /\ pc = "streaming"
    /\ accumulatedToolResults = {"call1"}
    /\ toolCallResults = {"call1"}
    /\ invoked = <<"call1">>

\* C13: once the cancellation signal is raised, no further model invocation is
\* started in that turn.
C13_NoRoundAfterCancel ==
    [][ (cancelled /\ turn' = turn) => modelInvocations' = modelInvocations ]_vars

\* C16: once the model request or its response stream has failed, the handler
\* has rejected with the error and nothing more happens in the turn: no model
\* invocation, tool round or validation, and the retry counter stays as it was.
C16_StreamErrorAbandons ==
    /\ [](thrown => pc = "threw" /\ retries = failures)
    /\ [][ (thrown /\ turn' = turn) =>
              UNCHANGED <<pc, modelInvocations, toolCallRounds, validations, retries,
                          failures, messages, stream>> ]_vars

C16_Witness ==
    /\ pc = "threw"
    /\ thrown
    /\ modelInvocations = 2
    /\ retries = 1
    /\ chunks # <<>>

\* C14: every validation that waits for a renderer result eventually resolves,
\* also when no parse-result with its nonce is posted or the panel is closed
\* while the wait is pending.
C14_WaitResolves == (pc = "validating") ~> (pc \notin {"validating", "hung"})

\* C15: a failing tool invocation (unknown tool name, undecodable arguments
\* or a failing execution) does not abort the run: its failure is recorded as
\* the result of the call and the model is invoked again.
C15_ToolFailureFolded ==
    outline.toolFailed =>
        /\ outline.pc \in {"streaming", "returned"}
        /\ \E i \in 1..Len(outline.messages) : outline.messages[i].kind = "toolResult"

\* a user-role message that carries neither tool calls nor a tool result
IsPlainUser(m) == m.role = "user" /\ m.kind \notin {"toolCalls", "toolResult"}

\* C17: the message sequence of every model invocation of the outline loop
\* (the first, the one after tool results, the one after a failed validation)
\* and of every invocation the chat loop makes to retry a failed validation
\* ends with a user-role message that is neither a tool call nor a tool result.
C17_EndsWithUserMessage ==
    /\ [](outline.messages # <<>> => IsPlainUser(outline.messages[Len(outline.messages)]))
    /\ [][ (failures' = failures + 1 /\ modelInvocations' = modelInvocations + 1) =>
              IsPlainUser(messages'[Len(messages')]) ]_vars

C17_Witness ==
    /\ outline.pc = "streaming"
    /\ outline.retries = 1
    /\ Len(outline.messages) = 6
    /\ outline.messages[4].kind = "toolResult"
    /\ outline.messages[6].kind = "fix"

\* the corrective instructions among the messages pushed in this turn
IsCorrective(m) == m.kind \in {"keyword", "nesting"}
Correctives == SelectSeq(pushed, IsCorrective)

\* the text holds the diagram-type keyword
HasKeyword(c) ==
    \E i \in 1..(Len(c) - 6) : SubSeq(c, i, i + 6) = <<"m", "e", "r", "m", "a", "i", "d">>

\* C18 as stated: every validation failure injects exactly one corrective
\* instruction, the nested-definition one for every failure after the first.
C18_CorrectiveOnEveryFailure ==
    /\ Len(Correctives) = failures
    /\ \A i \in 2..Len(Correctives) : Correctives[i].kind = "nesting"

\* C18 amended: the first validation failure of a turn injects exactly one
\* corrective instruction, before the fix message: the missing-keyword one when
\* the captured text does not contain 'mermaid', the nested-definition one
\* otherwise; later failures inject none.
C18_CorrectiveOnFirstFailure ==
    IF failures = 0
    THEN pushed = <<>>
    ELSE /\ Len(Correctives) = 1
         /\ Len(pushed) >= 2
         /\ IsCorrective(pushed[1])
         /\ pushed[2].kind = "fix"
         /\ (pushed[1].kind = "keyword" <=> ~HasKeyword(pushed[2].diagram))

C18_Witness ==
    /\ failures = 2
    /\ pc = "streaming"
    /\ pushed[1].kind = "nesting"
    /\ Len(pushed) = 3

\* C19 as stated: a fix message is appended after every validation failure,
\* the one that leads to abandonment included.
C19_FixAfterEveryFailure == FixCount(pushed) = failures

\* C19 amended: every validation failure that is retried (the 1st to the 3rd of
\* a turn) appends, as the last message, a user message with the literal error
\* of that validation and the captured diagram text; the failure that abandons
\* the turn appends no message.
C19_FixWhileRetrying ==
    [][ failures' = failures + 1 =>
          LET err == IF pc = "validating"
                     THEN parseDetails[Find(parseDetails, nonce)].error
                     ELSE "diagram contains extra fence characters"
          IN IF failures' < 4
             THEN /\ Len(messages') > Len(messages)
                  /\ messages'[Len(messages')] =
                        [kind |-> "fix", role |-> "user", error |-> err,
                         diagram |-> mermaidDiagram, rounds |-> 0]
             ELSE /\ pc' = "abandoned"
                  /\ messages' = messages ]_vars

C19_Witness ==
    /\ pc = "abandoned"
    /\ FixCount(pushed) = 3
    /\ Len(messages) = 5
    /\ messages[5].error = "unexpected token"
    /\ messages[5].diagram # <<>>

\* C20: a diagram rejected because its content holds a fence sequence goes
\* through the retry path of a renderer parse failure: the retry counter is
\* incremented and, while retries remain, the fix message with the rejection
\* text is appended and the model invoked again; otherwise the turn is abandoned.
C20_RejectionRetried ==
    [][ (validations' = validations + 1 /\ HasFence(diagram')) =>
          /\ retries' = retries + 1
          /\ IF retries' < 4
             THEN /\ messages'[Len(messages')] =
                        [kind |-> "fix", role |-> "user",
                         error |-> "diagram contains extra fence characters",
                         diagram |-> mermaidDiagram, rounds |-> 0]
                  /\ modelInvocations' = modelInvocations + 1
                  /\ pc' \in {"streaming", "threw"}
             ELSE /\ pc' = "abandoned"
                  /\ modelInvocations' = modelInvocations ]_vars

C20_Witness ==
    /\ pc = "streaming"
    /\ retries = 2
    /\ validations = 2
    /\ HasFence(diagram)
    /\ messages[Len(messages)].error = "diagram contains extra fence characters"
    /\ messages[Len(messages) - 1].error = "unexpected token"

\* the response of the current round was read to its end in this step
StreamEnded ==
    /\ pc = "streaming"
    /\ pc' # "streaming"
    /\ ~(thrown' /\ validations' = validations)

\* C21 as stated: after n model invocations of a turn the round history holds
\* n records, rounds without a tool call included.
C21_RoundPerInvocation == pc = "accepted" => Len(toolCallRounds) = modelInvocations

\* C21 amended: the round history holds, in invocation order, one record for
\* every completed round that issued at least one tool call, with the prose of
\* that round and its tool-call list; a round that issued no tool call is not
\* recorded, and nothing else changes the history within a turn.
C21_RoundPerToolCallResponse ==
    /\ [](\A i \in 1..Len(toolCallRounds) : toolCallRounds[i].toolCalls # <<>>)
    /\ [][ turn' = turn =>
             IF StreamEnded /\ toolCalls # <<>>
             THEN toolCallRounds' =
                     Append(toolCallRounds, [response |-> responseStr, toolCalls |-> toolCalls])
             ELSE toolCallRounds' = toolCallRounds ]_vars

C21_Witness ==
    /\ pc = "accepted"
    /\ modelInvocations = 2
    /\ toolCallRounds = <<[response |-> <<"a", "bq">>, toolCalls |-> <<"call1">>]>>

C23_ToolRoundSkipsValidation ==
    /\ [](pc = "renderPrompt" => toolCalls # <<>>)
    /\ [][ (StreamEnded /\ toolCalls # <<>>) =>
              /\ pc' = "renderPrompt"
              /\ Len(toolCallRounds') = Len(toolCallRounds) + 1
              /\ UNCHANGED <<validations, retries, failures, diagram, html, nonce,
                             modelInvocations>> ]_vars
    /\ [][ (pc = "renderPrompt" /\ pc' # "renderPrompt") =>
              /\ pc' \in {"streaming", "threw"}
              /\ modelInvocations' = modelInvocations + 1
              /\ mermaidDiagram' = <<>>
              /\ ~isMermaidDiagramStreamingIn'
              /\ toolCalls' = <<>>
              /\ UNCHANGED <<validations, retries, failures, diagram, html, nonce,
                             toolCallRounds>> ]_vars

C23_Witness ==
    /\ pc = "streaming"
    /\ Len(toolCallRounds) = 1
    /\ modelInvocations = 2
    /\ chunks = <<>>
    /\ mermaidDiagram = <<>>
    /\ validations = 0
    /\ Len(stream) = 1
    /\ stream[1].note = "Capturing mermaid diagram"

\* C24: the validator is invoked for a round only if a diagram buffer was
\* captured in the response of the round: while a validation is pending, the
\* response held a fence-open marker and the diagram buffer is not empty.
C24_ValidatedOnlyIfCaptured ==
    pc = "validating" => (FirstFence(chunks) # 0 /\ mermaidDiagram # <<>>)

\* a validation fails in this step: the candidate is rejected for its fence
\* sequence, or the pending wait finds a parse-result that reports an error
ValidationFails ==
    \/ validations' = validations + 1 /\ HasFence(diagram')
    \/ /\ pc = "validating"
       /\ pc' # "validating"
       /\ \E i \in 1..Len(parseDetails) :
             /\ parseDetails[i].nonce = nonce
             /\ \A j \in 1..(i - 1) : parseDetails[j].nonce # nonce
             /\ ~parseDetails[i].success

\* C25: the retry counter is 0 when a turn starts, grows by exactly 1 with each
\* failed validation of the turn and is changed by nothing else (stream chunks,
\* tool-call rounds, a successful validation): it always equals the number of
\* validations that have failed so far in the turn.
C25_RetriesCountFailures ==
    /\ [](retries = failures)
    /\ [][ IF turn' # turn THEN retries' = 0
           ELSE IF ValidationFails THEN retries' = retries + 1
           ELSE retries' = retries ]_vars

C25_Witness ==
    /\ pc = "accepted"
    /\ retries = 2
    /\ validations = 3
    /\ Len(toolCallRounds) = 1
    /\ chunks # <<>>

\* a validation passes the fence check and generates its token in this step
TokenGenerated == validations' = validations + 1 /\ ~HasFence(diagram')

\* the pending validation stops polling in this step
WaitEnds == pc = "validating" /\ pc' # "validating"

\* the recorded parse-results that carry token n
Carrying(details, n) == {i \in 1..Len(details) : details[i].nonce = n}

\* C26: the token a validation generates is greater than the token of every
\* validation before it on the panel, so greater than the token of every
\* parse-result the panel has recorded; and the parse-result that ends a wait
\* was posted after that validation started, by the page loaded for its
\* candidate: it is the last one recorded and carries the candidate's text.
C26_TokensIncrease ==
    /\ [][ TokenGenerated =>
              /\ html'.nonce = nonce'
              /\ (currentPanel /\ html.kind = "validate" => html.nonce < nonce')
              /\ \A i \in 1..Len(parseDetails') : parseDetails'[i].nonce < nonce' ]_vars
    /\ [][ WaitEnds =>
              /\ Carrying(parseDetails, nonce) = {Len(parseDetails)}
              /\ parseDetails[Len(parseDetails)].diagram = Diagram(mermaidDiagram) ]_vars
    /\ [][ \A i \in 1..Len(parseDetails) :
              currentPanel' /\ currentPanel =>
                 /\ Len(parseDetails') >= Len(parseDetails)
                 /\ parseDetails'[i] = parseDetails[i] ]_vars

C26_Witness ==
    /\ pc = "accepted"
    /\ Len(parseDetails) = 3
    /\ parseDetails[1].nonce < parseDetails[2].nonce
    /\ parseDetails[2].nonce < parseDetails[3].nonce
    /\ ~parseDetails[2].success
    /\ parseDetails[3].success
    /\ parseDetails[2].diagram # parseDetails[3].diagram

\* C27: every validation that passed the fence check is pending or has been
\* resolved once; its wait ends only when a parse-result with its nonce is
\* recorded, whatever results with other nonces are, and the outcome is the
\* success flag of the first such result: an error is a failed validation, a
\* success is an accepted diagram (or, on a closed panel, a wait that never
\* resolves); after that the validation is not polled again.
C27_ResolvedByOwnNonce ==
    /\ [](validations = failures + (IF pc \in {"validating", "hung", "accepted"} THEN 1 ELSE 0))
    /\ [][ WaitEnds =>
              /\ Carrying(parseDetails, nonce) # {}
              /\ LET i == CHOOSE k \in Carrying(parseDetails, nonce) :
                             \A j \in Carrying(parseDetails, nonce) : k <= j
                 IN IF parseDetails[i].success
                    THEN /\ pc' \in {"accepted", "hung"}
                         /\ pc' = "accepted" => result' = Success
                         /\ failures' = failures
                    ELSE /\ failures' = failures + 1
                         /\ pc' \in {"streaming", "threw", "abandoned", "noDiagram"}
                         /\ pc' = "abandoned" => result' = Failure(parseDetails[i].error) ]_vars
    /\ [][ (pc \in Terminal /\ turn' = turn) => UNCHANGED <<pc, result, failures>> ]_vars

C27_Witness ==
    /\ pc = "accepted"
    /\ Len(parseDetails) = 2
    /\ parseDetails[1].nonce # nonce
    /\ parseDetails[2].nonce = nonce
    /\ ~parseDetails[1].success
    /\ parseDetails[2].success

\* C29: when a validation resolves with success, the diagram the panel holds
\* as current and displays is the candidate the validation was started for,
\* also when another createOrShow on the panel started before it resolved.
\* Checked for calls whose tokens are pairwise distinct.
C29_AcceptedCandidateShown ==
    [][ \A i \in 1..Len(pendingCalls) :
          (/\ pendingCalls[i].polling
           /\ pendingCalls'[i].result = Success
           /\ \A j \in 1..Len(pendingCalls) :
                 j # i => pendingCalls[j].nonce # pendingCalls[i].nonce) =>
             /\ diagram' = pendingCalls[i].diagram
             /\ html' = getHtmlForWebview(pendingCalls[i].diagram) ]_vars

\* C28: when every validation started so far in a turn on an already existing
\* panel has failed, the panel's current diagram is the one it held when the
\* turn started (the accepted diagram of the initial state).
C28_FailedCandidateNotCurrent ==
    (/\ turn = 1
     /\ hadDiagram
     /\ disposals = 0
     /\ validations > 0
     /\ failures = validations) => diagram = Diagram(Fenced)

\* C30: at most one panel is current: a panel becomes current only in a
\* createOrShow that found none, a createOrShow that finds one keeps that
\* panel with the parse-results it has recorded, a panel stops being current
\* only when it is disposed, and after a dispose no panel is current.
C30_SinglePanel ==
    /\ [][ validations' = validations + 1 =>
              /\ currentPanel'
              /\ IF currentPanel
                 THEN /\ parseDetails' = parseDetails
                      /\ html' = html \/ html'.kind = "validate"
                 ELSE /\ parseDetails' = <<>>
                      /\ html'.kind \in {"none", "validate"} ]_vars
    /\ [][ (~currentPanel /\ currentPanel') => validations' = validations + 1 ]_vars
    /\ [][ (currentPanel /\ ~currentPanel') => disposals' = disposals + 1 ]_vars
    /\ [][ disposals' = disposals + 1 => (currentPanel /\ ~currentPanel') ]_vars

C30_Witness ==
    /\ pc = "validating"
    /\ currentPanel
    /\ hadDiagram
    /\ disposals = 1
    /\ validations = 2
    /\ Len(parseDetails) = 1
    /\ parseDetails[1].nonce < nonce

\* C31: the 'No diagram found' exit is taken only before the first model
\* invocation of a turn: a turn that ended with it has run no round.
C31_NoDiagramOnlyAtStart == pc = "noDiagram" => (modelInvocations = 0 /\ validations = 0)

\* C32: a turn cannot run for ever once its streams end and its validations
\* resolve.  Every round ends with the handler's next step enabled: the end of
\* the stream can always be processed, a recorded round can always be
\* re-rendered, a validation whose parse-result is recorded can always be
\* resolved (a wait stays unresolved only after the panel was closed), and
\* there are no other positions before the end of the turn.  The
\* steps that start another round are bounded: one per response with tool
\* calls, and at most 3 retries after failed validations, so the turn makes at
\* most 4 model invocations more than it has tool-call rounds and at most 4
\* validations; with no tool calls at all, at most 4 model invocations.
C32_TurnTerminates ==
    [](/\ pc \in {"idle", "streaming", "renderPrompt", "validating", "hung"}
                 \cup {"accepted", "abandoned", "noDiagram", "threw"}
       /\ validations <= 4
       /\ modelInvocations <= Len(toolCallRounds) + 4
       /\ retries < 4 \/ pc = "abandoned"
       /\ pc = "streaming" => ENABLED EndStream(FALSE)
       /\ pc = "renderPrompt" => ENABLED ToolsRendered(FALSE)
       /\ (pc = "validating" /\ Carrying(parseDetails, nonce) # {}) =>
             ENABLED (PollSuccess \/ PollFailure(FALSE))
       /\ pc = "hung" => disposals > 0)

C32_Witness ==
    /\ pc = "abandoned"
    /\ toolCallRounds = <<>>
    /\ modelInvocations = 4
    /\ validations = 4
    /\ ~thrown
    /\ chunkCount = 2

\* C33: tool-call rounds are not counted against the turn.  While no validation
\* has failed, the invocation that reads a response is the one after the
\* recorded tool-call rounds and the retry counter is 0; after every round,
\* whatever their number, the handler can send the next request with the retry
\* counter untouched (save the exit of an 'iterate' turn that finds no panel);
\* and a turn is abandoned by failed validations only.
C33_ToolRoundsUnbounded ==
    /\ (pc = "streaming" /\ failures = 0) =>
          (modelInvocations = Len(toolCallRounds) + 1 /\ retries = 0)
    /\ (pc = "renderPrompt" /\ ~NoDiagramToIterate(command, currentPanel)) =>
          ENABLED (/\ ToolsRendered(FALSE)
                   /\ pc' = "streaming"
                   /\ modelInvocations' = modelInvocations + 1
                   /\ retries' = retries)
    /\ pc = "abandoned" => (failures = 4 /\ validations = 4)

C33_Witness ==
    /\ pc = "streaming"
    /\ Len(toolCallRounds) = MaxChunks
    /\ modelInvocations = MaxChunks + 1
    /\ retries = 0
    /\ failures = 0

\* C34: the outline loop hands the view a diagram only if the validation of
\* that diagram succeeded.
C34_ReturnedOnlyIfValid == outline.given => outline.validated

\* the outline loop has met no tool call
NoToolRound == \A i \in 1..Len(outline.messages) : outline.messages[i].kind # "toolCalls"

\* C35: in the outline loop without tool calls every request but the first
\* follows one failed validation and its fix message; there are at most 3
\* validations, and a loop that returns a rejected candidate has sent 3
\* requests, validated 3 candidates and appended 2 fix messages; once it has
\* returned it sends nothing more.
C35_TwoOutlineRetries ==
    /\ outline.validations <= 3
    /\ (NoToolRound /\ outline.pc = "streaming") =>
          /\ outline.invocations = FixCount(outline.messages) + 1
          /\ outline.validations = FixCount(outline.messages)
          /\ outline.retries = FixCount(outline.messages)
    /\ (NoToolRound /\ outline.pc = "returned" /\ outline.given /\ ~outline.validated) =>
          /\ outline.invocations = 3
          /\ outline.validations = 3
          /\ FixCount(outline.messages) = 2
    /\ outline.pc = "returned" => ~ENABLED NextOutline

C35_Witness ==
    /\ outline.pc = "returned"
    /\ NoToolRound
    /\ ~outline.validated
    /\ outline.invocations = 3
    /\ outline.validations = 3

\* C36: when the outline loop sends its next request, every tool call of the
\* response it was reading has its result among the messages.
C36_NoToolCallDropped ==
    \A i \in 1..Len(outline.unread) :
        \E j \in 1..Len(outline.messages) :
            /\ outline.messages[j].kind = "toolResult"
            /\ outline.messages[j].callId = outline.unread[i].callId

\* C37: reading a chunk of the alternate provider whose content is a non-empty
\* string is the same step as reading a text part with that string, and
\* reading one without content leaves the prose output, the accumulated
\* response, the diagram buffer, the tool-call list and the capture flag as
\* they were.
C37_DeltaChunkAsText ==
    [][/\ \A v \in TextValues :
             StreamPart(Part("choices", v, "")) <=> StreamPart(Part("text", v, ""))
       /\ StreamPart(Part("choices", <<>>, "")) =>
             UNCHANGED <<stream, responseStr, totalResponse, mermaidDiagram, toolCalls,
                         isMermaidDiagramStreamingIn>>]_vars

C37_Witness ==
    /\ command = "iterate"
    /\ pc = "streaming"
    /\ chunkCount = 2
    /\ responseStr # <<>>
    /\ mermaidDiagram # <<>>
    /\ \E i \in 1..Len(stream) : stream[i].kind = "markdown" /\ stream[i].text = responseStr

\* C38: the step that takes a successful validation ends the turn: it sends no
\* request, appends no message and leaves the retry counter alone; the button
\* it adds carries the content of the page that was validated, which is the
\* normalised captured text, and the panel, if it is still there, keeps that
\* content as its diagram and displays it.  Nothing of the turn changes
\* afterwards.
C38_SuccessEndsTurn ==
    [][/\ (pc = "validating" /\ pc' = "accepted") =>
             /\ UNCHANGED <<modelInvocations, messages, retries>>
             /\ html.kind = "validate"
             /\ html.content = Diagram(mermaidDiagram)
             /\ stream' = Append(stream, Ev("button", html.content, "Open mermaid source"))
             /\ ~disposed => /\ diagram' = html.content
                             /\ html' = getHtmlForWebview(html.content)
       /\ (pc = "accepted" /\ turn' = turn) =>
             UNCHANGED <<pc, modelInvocations, messages, retries, stream>>]_vars

C38_Witness ==
    /\ pc = "accepted"
    /\ currentPanel
    /\ stream[Len(stream)].kind = "button"
    /\ stream[Len(stream)].text = diagram
    /\ diagram # <<>>
    /\ mermaidDiagram # diagram
    /\ html = getHtmlForWebview(diagram)

\* C39: while and after a response is read, the accumulated response is the
\* concatenation, in order, of the text chunks of that response sent to the
\* prose sink; every text chunk of the response is either there or in the
\* diagram buffer, never in both; and the record of a tool-call round holds
\* that accumulated response.
C39_ResponseIsProse ==
    /\ InRound =>
          /\ responseStr = Concat(ProseSink)
          /\ responseStr \o mermaidDiagram = Concat(chunks)
    /\ pc = "renderPrompt" =>
          toolCallRounds[Len(toolCallRounds)].response = Concat(ProseSink)

C39_Witness ==
    /\ pc = "renderPrompt"
    /\ Len(ProseSink) = 1
    /\ ProseSink[1] # <<>>
    /\ toolCallRounds[Len(toolCallRounds)].response = ProseSink[1]

====
